---- MODULE Spec2Model ----
(***************************************************************************)
(* The scanner of rex-c (src/src/scanner/mod.rs, src/src/scanner/token.rs, *)
(* src/src/utility/mod.rs) as a state machine.  The state is the source    *)
(* buffer and diagnostics of the Compiler, the fields of the Scanner, and  *)
(* the token handed back by the last call of next_token.  The only         *)
(* operation is next_token; everything it calls is an operator below.      *)
(*                                                                         *)
(* A character is a string: an ASCII character stands for itself (the     *)
(* backtick is "U+0060"), "U+0000" is the NUL character and "U+00E9" is a  *)
(* character whose UTF-8 encoding is two bytes long.  A Rust String is a sequence of characters; *)
(* len() and slices count bytes, chars().nth() counts characters.          *)
(***************************************************************************)
EXTENDS Integers, Sequences, FiniteSets, TLC

VARIABLES
    contents,     \* compiler.contents: the source buffer, never written
    errors,       \* compiler.errors: the diagnostics
    scanner,      \* the Scanner: read, current_pos, token_pos
    status,       \* "ok", or how the last call ended: "panic", "hang"
    token,        \* the Token returned by the last call of next_token
    token_start,  \* the value of scanner.read when token.pos was snapshot
    before        \* scanner, errors and token when the last call began

vars == <<contents, errors, scanner, status, token, token_start, before>>

----------------------------------------------------------------------------
(* Characters and strings *)

NUL == "U+0000"
WIDE == "U+00E9"
BACKTICK == "U+0060"
None == "None"         \* Option<char>::None
NoneStr == <<None>>    \* Option<&str>::None, and a slice that panics

Chars(str) == [i \in 1..Len(str) |-> SubSeq(str, i, i)]

len_utf8(ch) == IF ch = WIDE THEN 2 ELSE 1

RECURSIVE len(_)
len(str) == IF str = <<>> THEN 0 ELSE len_utf8(Head(str)) + len(Tail(str))

nth(str, i) == IF i < Len(str) THEN str[i + 1] ELSE None

is_char_boundary(str, b) ==
    \E k \in 0..Len(str) : len(SubSeq(str, 1, k)) = b

char_index(str, b) ==
    CHOOSE k \in 0..Len(str) : len(SubSeq(str, 1, k)) = b

\* str.get(start..end): None where &str[start..end] panics
get(str, start, end) ==
    IF start <= end /\ is_char_boundary(str, start) /\ is_char_boundary(str, end)
    THEN SubSeq(str, char_index(str, start) + 1, char_index(str, end))
    ELSE NoneStr

clamp(n, lo, hi) == IF n < lo THEN lo ELSE IF n > hi THEN hi ELSE n

----------------------------------------------------------------------------
(* src/src/utility/mod.rs *)

Letters == {"a","b","c","d","e","f","g","h","i","j","k","l","m",
            "n","o","p","q","r","s","t","u","v","w","x","y","z",
            "A","B","C","D","E","F","G","H","I","J","K","L","M",
            "N","O","P","Q","R","S","T","U","V","W","X","Y","Z"}

Digits == {"0","1","2","3","4","5","6","7","8","9"}

is_alphabetical(ch) == ch \in Letters

is_integral(ch) == ch \in Digits \/ ch = "_"

is_numeric(ch) == is_integral(ch) \/ ch = "."

is_alphanumeric(ch) == is_alphabetical(ch) \/ is_integral(ch)

try_escape_char(str) == IF str = <<"\\", "n">> THEN "\n" ELSE None

----------------------------------------------------------------------------
(* src/src/scanner/token.rs *)

\* A Kind: the variant, the Keyword or Mode it carries, the text it carries
Kind(variant, name, text) == [variant |-> variant, name |-> name, text |-> text]

Plain(variant) == Kind(variant, "", <<>>)

Keyword(name) == Kind("Keyword", name, <<>>)

Mode(name) == Kind("Mode", name, <<>>)

NoneKind == Plain(None)    \* Option<Kind>::None

\* the lexeme the comment of each operator variant of the enum gives
KindDocs ==
    { <<"Assign", "=">>,       <<"AssignExp", ":=">>,   <<"Arrow", "->">>,
      <<"WideArrow", "=>">>,   <<"RangeExc", "..">>,    <<"RangeInc", "..=">>,
      <<"ForwardApp", "|>">>,  <<"ReverseApp", "<|">>,  <<"Concat", "<>">>,
      <<"Increment", "++">>,   <<"Decrement", "--">>,   <<"Power", "**">>,
      <<"LeftShift", "<<">>,   <<"RightShift", ">>">>,  <<"Lesser", "<">>,
      <<"LesserEq", "<=">>,    <<"Greater", ">">>,      <<"GreaterEq", ">=">>,
      <<"Equal", "==">>,       <<"NotEqual", "!=">> }

from_char(ch) ==
    CASE ch = "="  -> Plain("Assign")
      [] ch = "."  -> Plain("Dot")
      [] ch = ","  -> Plain("Comma")
      [] ch = "("  -> Plain("LeftParen")
      [] ch = ")"  -> Plain("RightParen")
      [] ch = "["  -> Plain("LeftBracket")
      [] ch = "]"  -> Plain("RightBracket")
      [] ch = "{"  -> Plain("LeftSquirly")
      [] ch = "}"  -> Plain("RightSquirly")
      [] ch = "'"  -> Plain("SingleQuote")
      [] ch = "\"" -> Plain("DoubleQuote")
      [] ch = BACKTICK -> Plain("Backtick")
      [] ch = "\\" -> Plain("Backslash")
      [] ch = ":"  -> Plain("Colon")
      [] ch = ";"  -> Plain("Semicolon")
      [] ch = "@"  -> Plain("Address")
      [] ch = "$"  -> Plain("Cash")
      [] ch = "#"  -> Plain("Pound")
      [] ch = "!"  -> Plain("Bang")
      [] ch = "?"  -> Plain("Question")
      [] ch = "+"  -> Plain("Plus")
      [] ch = "-"  -> Plain("Minus")
      [] ch = "*"  -> Plain("Asterisk")
      [] ch = "/"  -> Plain("Slash")
      [] ch = "%"  -> Plain("Percent")
      [] ch = "&"  -> Plain("Ampersand")
      [] ch = "|"  -> Plain("Pipe")
      [] ch = "^"  -> Plain("Caret")
      [] ch = "~"  -> Plain("Tilde")
      [] ch = "<"  -> Plain("Lesser")
      [] ch = ">"  -> Plain("Greater")
      [] ch = "\n" -> Plain("Newline")
      [] ch = NUL  -> Plain("Eof")
      [] OTHER     -> Plain("Illegal")

\* the arms of try_keyword: the word and the Keyword it yields
KeywordTable ==
    { <<Chars("const"), "Const">>,       <<Chars("let"), "Let">>,
      <<Chars("pub"), "Pub">>,           <<Chars("return"), "Return">>,
      <<Chars("do"), "Do">>,             <<Chars("end"), "End">>,
      <<Chars("record"), "Record">>,     <<Chars("variant"), "Variant">>,
      <<Chars("use"), "Use">>,           <<Chars("interface"), "Interface">>,
      <<Chars("module"), "Module">>,     <<Chars("defer"), "Defer">>,
      <<Chars("true"), "True">>,         <<Chars("false"), "False">>,
      <<Chars("for"), "For">>,           <<Chars("while"), "While">>,
      <<Chars("break"), "Break">>,       <<Chars("continue"), "Continue">>,
      <<Chars("match"), "Match">>,       <<Chars("if"), "If">>,
      <<Chars("else"), "Else">>,         <<Chars("and"), "And">>,
      <<Chars("or"), "Or">>,             <<Chars("not"), "Not">>,
      <<Chars("inline"), "Inline">>,     <<Chars("test"), "Test">>,
      <<Chars("fn"), "Fn">>,             <<Chars("in"), "In">>,
      <<Chars("private"), "Private">>,   <<Chars("derive"), "Derive">>,
      <<Chars("static"), "Static">>,     <<Chars("macro"), "Macro">>,
      <<Chars("from"), "From">>,         <<Chars("impl"), "Impl">>,
      <<Chars("when"), "When">>,         <<Chars("any"), "Any">>,
      <<Chars("as"), "As">> }

\* the arms of try_mode
ModeTable ==
    { <<Chars("comptime"), "Comptime">>, <<Chars("mut"), "Mut">>,
      <<Chars("mov"), "Mov">>,           <<Chars("loc"), "Loc">> }

try_keyword(str) ==
    IF \E e \in KeywordTable : e[1] = str
    THEN Keyword((CHOOSE e \in KeywordTable : e[1] = str)[2])
    ELSE NoneKind

try_mode(str) ==
    IF \E e \in ModeTable : e[1] = str
    THEN Mode((CHOOSE e \in ModeTable : e[1] = str)[2])
    ELSE NoneKind

\* the table with == and != the way the scanner has them
try_from_str_as_dispatch(str) ==
    CASE str = Chars(":=")  -> Plain("AssignExp")
      [] str = Chars("->")  -> Plain("Arrow")
      [] str = Chars("=>")  -> Plain("WideArrow")
      [] str = Chars("..")  -> Plain("RangeExc")
      [] str = Chars("..=") -> Plain("RangeInc")
      [] str = Chars("|>")  -> Plain("ReverseApp")
      [] str = Chars("<|")  -> Plain("ForwardApp")
      [] str = Chars("<>")  -> Plain("Concat")
      [] str = Chars("++")  -> Plain("Increment")
      [] str = Chars("--")  -> Plain("Decrement")
      [] str = Chars("**")  -> Plain("Power")
      [] str = Chars("<<")  -> Plain("LeftShift")
      [] str = Chars(">>")  -> Plain("RightShift")
      [] str = Chars("<=")  -> Plain("LesserEq")
      [] str = Chars(">=")  -> Plain("GreaterEq")
      [] str = Chars("==")  -> Plain("Equal")
      [] str = Chars("!=")  -> Plain("NotEqual")
      [] OTHER              -> NoneKind

try_from_str(str) ==
    CASE str = Chars(":=")  -> Plain("AssignExp")
      [] str = Chars("->")  -> Plain("Arrow")
      [] str = Chars("=>")  -> Plain("WideArrow")
      [] str = Chars("..")  -> Plain("RangeExc")
      [] str = Chars("..=") -> Plain("RangeInc")
      [] str = Chars("|>")  -> Plain("ReverseApp")
      [] str = Chars("<|")  -> Plain("ForwardApp")
      [] str = Chars("<>")  -> Plain("Concat")
      [] str = Chars("++")  -> Plain("Increment")
      [] str = Chars("--")  -> Plain("Decrement")
      [] str = Chars("**")  -> Plain("Power")
      [] str = Chars("<<")  -> Plain("LeftShift")
      [] str = Chars(">>")  -> Plain("RightShift")
      [] str = Chars("<=")  -> Plain("LesserEq")
      [] str = Chars(">=")  -> Plain("GreaterEq")
      [] str = Chars("==")  -> Plain("NotEqual")
      [] str = Chars("!=")  -> Plain("Equal")
      [] OTHER              -> NoneKind

Token(kind, file, pos) == [kind |-> kind, file |-> file, pos |-> pos]

----------------------------------------------------------------------------
(* Position, Error and the Compiler's input name *)

Position(line, column) == [line |-> line, column |-> column]

Error(file, category, message, pos) ==
    [file |-> file, category |-> category, message |-> message, pos |-> pos]

input == "input"

----------------------------------------------------------------------------
(* src/src/scanner/mod.rs.  An operator takes and gives back the state *)
(* s = [read, current_pos, token_pos, errors, status]; s.status is     *)
(* "panic" once an unwrap or a slice panicked, "overflow" once the     *)
(* usize subtraction of prev wrapped below zero, "hang" once a loop    *)
(* stopped making progress; the call has then no token to return.      *)

Panic(s) == [s EXCEPT !.status = "panic"]

Overflow == "Overflow"

Stopped(s, ch) == IF ch = Overflow THEN [s EXCEPT !.status = "overflow"] ELSE Panic(s)

read(s) ==
    IF s.read >= len(contents) THEN NUL ELSE nth(contents, s.read)

peek(s) ==
    IF s.read + 1 >= len(contents) THEN NUL ELSE nth(contents, s.read + 1)

prev(s) ==
    IF s.read = 0 THEN Overflow
    ELSE IF s.read - 1 >= len(contents) THEN NUL
    ELSE nth(contents, s.read - 1)

\* a newline resets the column and leaves the line as it was
advance_step_same_line(s) ==
    LET s1 == [s EXCEPT !.read = @ + 1, !.current_pos.column = @ + 1]
        p == prev(s1)
    IN  IF p \in {None, Overflow} THEN Stopped(s1, p)
        ELSE IF p = "\n"
        THEN [s1 EXCEPT !.current_pos = Position(@.line, 1)]
        ELSE s1

\* a newline resets the column to 0, not to 1
advance_step_column_zero(s) ==
    LET s1 == [s EXCEPT !.read = @ + 1, !.current_pos.column = @ + 1]
        p == prev(s1)
    IN  IF p \in {None, Overflow} THEN Stopped(s1, p)
        ELSE IF p = "\n"
        THEN [s1 EXCEPT !.current_pos = Position(@.line + 1, 0)]
        ELSE s1

advance_step(s) ==
    LET s1 == [s EXCEPT !.read = @ + 1, !.current_pos.column = @ + 1]
        p == prev(s1)
    IN  IF p \in {None, Overflow} THEN Stopped(s1, p)
        ELSE IF p = "\n"
        THEN [s1 EXCEPT !.current_pos = Position(@.line + 1, 1)]
        ELSE s1

RECURSIVE advance_loop(_, _)
advance_loop(s, count) ==
    IF count = 0 \/ s.status # "ok" THEN s
    ELSE advance_loop(advance_step(s), count - 1)

advance(s, count) == advance_loop(s, clamp(count, 0, 3))

\* the new diagnostic goes to the front of the list
push_error_front(s, message) ==
    [s EXCEPT !.errors =
        <<Error(input, "Scanning error", message, s.current_pos)>> \o @]

\* the diagnostic carries the token_pos snapshot
push_error_at_token_pos(s, message) ==
    [s EXCEPT !.errors =
        Append(@, Error(input, "Scanning error", message, s.token_pos))]

push_error(s, message) ==
    [s EXCEPT !.errors =
        Append(@, Error(input, "Scanning error", message, s.current_pos))]

\* what a token-reading function returns: the state and the Kind
Ret(s, kind) == [s |-> s, kind |-> kind]

RECURSIVE read_tag_loop(_)
read_tag_loop(s) ==
    IF s.status # "ok" THEN s
    ELSE LET char == read(s)
         IN  IF char = None THEN Panic(s)
             ELSE IF is_alphanumeric(char) THEN read_tag_loop(advance(s, 1))
             ELSE s

classify(str) ==
    IF try_keyword(str) # NoneKind THEN try_keyword(str)
    ELSE IF try_mode(str) # NoneKind THEN try_mode(str)
    ELSE Kind("Tag", "", str)

read_tag_keyword_mode(s) ==
    LET start == s.read
        s1 == read_tag_loop(s)
        str == get(contents, start, s1.read)
    IN  IF s1.status # "ok" THEN Ret(s1, NoneKind)
        ELSE IF str = NoneStr THEN Ret(Panic(s1), NoneKind)
        ELSE Ret(s1, classify(str))

RECURSIVE read_integer_loop(_)
read_integer_loop(s) ==
    IF s.status # "ok" THEN s
    ELSE LET char == read(s)
         IN  IF char = None THEN Panic(s)
             ELSE IF is_integral(char) THEN read_integer_loop(advance(s, 1))
             ELSE s

read_integer(s) == read_integer_loop(advance(s, 1))

RECURSIVE read_number_loop(_)
read_number_loop(s) ==
    IF s.status # "ok" THEN [s |-> s, is_float |-> FALSE]
    ELSE LET char == read(s)
         IN  IF char = None THEN [s |-> Panic(s), is_float |-> FALSE]
             ELSE IF ~is_numeric(char) THEN [s |-> s, is_float |-> FALSE]
             ELSE IF char = "." THEN [s |-> read_integer(s), is_float |-> TRUE]
             ELSE read_number_loop(advance(s, 1))

read_number(s) ==
    LET start == s.read
        r == read_number_loop(s)
        str == get(contents, start, r.s.read)
    IN  IF r.s.status # "ok" THEN Ret(r.s, NoneKind)
        ELSE IF str = NoneStr THEN Ret(Panic(r.s), NoneKind)
        ELSE Ret(r.s, Kind(IF r.is_float THEN "Float" ELSE "Integer", "", str))

create_escape_error(s, i, str) ==
    IF nth(str, i + 1) # None
    THEN push_error(s, "Unrecognized escape character: \\" \o nth(str, i + 1))
    ELSE push_error(s, "Unterminated escape character")

\* gives back the state and the new string
RECURSIVE handle_escape_loop(_, _, _, _)
handle_escape_loop(s, str, i, new_str) ==
    IF ~(i < len(str)) THEN [s |-> s, str |-> new_str]
    ELSE IF nth(str, i) = None
    THEN [s |-> [s EXCEPT !.status = "hang"], str |-> new_str]
    ELSE IF nth(str, i) = "\\"
    THEN IF try_escape_char(get(str, i, i + 2)) # None
         THEN handle_escape_loop(s, str, i + 2,
                  Append(new_str, try_escape_char(get(str, i, i + 2))))
         ELSE handle_escape_loop(create_escape_error(s, i, str), str, i + 1,
                  Append(new_str, "\\"))
    ELSE handle_escape_loop(s, str, i + 1, Append(new_str, nth(str, i)))

handle_escape_characters(s, str) == handle_escape_loop(s, str, 0, <<>>)

\* newlines are skipped with the spaces and tabs
RECURSIVE skip_whitespace_and_newlines(_)
skip_whitespace_and_newlines(s) ==
    IF s.status # "ok" THEN s
    ELSE LET ch == read(s)
         IN  IF ch = None THEN Panic(s)
             ELSE IF ch \in {" ", "\t", "\n"}
             THEN skip_whitespace_and_newlines(advance(s, 1))
             ELSE s

\* Skips whitespace, spaces and tabs
RECURSIVE skip_whitespace(_)
skip_whitespace(s) ==
    IF s.status # "ok" THEN s
    ELSE LET ch == read(s)
         IN  IF ch = None THEN Panic(s)
             ELSE IF ch \in {" ", "\t"} THEN skip_whitespace(advance(s, 1))
             ELSE s

\* the end of read_string and of read_multiline_string: the closing
\* advance(2), the unterminated check, the escape pass
finish_string(s, str) ==
    LET s1 == advance(s, 2)
        s2 == IF prev(s1) # "\"" THEN push_error(s1, "Unterminated string literal")
              ELSE s1
        r == handle_escape_characters(s2, str)
    IN  IF s1.status # "ok" THEN Ret(s1, NoneKind)
        ELSE IF r.s.status # "ok" THEN Ret(r.s, NoneKind)
        ELSE Ret(r.s, Kind("String", "", r.str))

RECURSIVE read_string_loop(_, _)
read_string_loop(s, str) ==
    IF s.status # "ok" THEN [s |-> s, str |-> str]
    ELSE LET p == peek(s)
         IN  IF p = None THEN [s |-> Panic(s), str |-> str]
             ELSE IF p # "\"" /\ p # NUL
             THEN read_string_loop(advance(s, 1), Append(str, p))
             ELSE [s |-> s, str |-> str]

read_string(s) ==
    LET r == read_string_loop(s, <<>>)
    IN  finish_string(r.s, r.str)

\* the '\n' arm of the loop of read_multiline_string; stop is the break
multiline_newline(s, str) ==
    LET s1 == skip_whitespace(advance(s, 2))
        ch == read(s1)
        p == peek(s1)
    IN  IF s1.status # "ok" THEN [s |-> s1, str |-> str, stop |-> TRUE]
        ELSE IF ch = None THEN [s |-> Panic(s1), str |-> str, stop |-> TRUE]
        ELSE IF ch = "|"
        THEN IF p = None THEN [s |-> Panic(s1), str |-> str, stop |-> TRUE]
             ELSE IF p = "\"" THEN [s |-> s1, str |-> str, stop |-> TRUE]
             ELSE [s |-> s1, str |-> Append(str, p), stop |-> FALSE]
        ELSE [s |-> push_error(s1, "Missing start of line delimiter '|'"),
              str |-> str, stop |-> FALSE]

RECURSIVE read_multiline_loop(_, _)
read_multiline_loop(s, str) ==
    IF s.status # "ok" THEN [s |-> s, str |-> str]
    ELSE LET p == peek(s)
         IN  IF p = None THEN [s |-> Panic(s), str |-> str]
             ELSE IF p = "\"" \/ p = NUL THEN [s |-> s, str |-> str]
             ELSE IF p = "\n"
             THEN LET r == multiline_newline(s, Append(str, "\n"))
                  IN  IF r.stop THEN [s |-> r.s, str |-> r.str]
                      ELSE read_multiline_loop(advance(r.s, 1), r.str)
             ELSE read_multiline_loop(advance(s, 1), Append(str, p))

read_multiline_string(s) ==
    LET r == read_multiline_loop(advance(s, 1), <<>>)
    IN  finish_string(r.s, r.str)

\* a candidate of try_compound_operator: (count, operator, kind)
Candidate(count, operator, kind) ==
    [count |-> count, operator |-> Chars(operator), kind |-> Plain(kind)]

RECURSIVE try_compound_operator(_, _)
try_compound_operator(s, matches) ==
    IF matches = <<>> THEN Ret(s, NoneKind)
    ELSE LET m == Head(matches)
             start == s.read
             end == clamp(s.read + m.count, 0, len(contents))
             slice == get(contents, start, end)
         IN  IF slice = NoneStr THEN Ret(Panic(s), NoneKind)
             ELSE IF slice = m.operator THEN Ret(advance(s, m.count), m.kind)
             ELSE try_compound_operator(s, Tail(matches))

\* Skips a comment until the end of the line or file
RECURSIVE skip_single_comment(_)
skip_single_comment(s) ==
    IF s.status # "ok" THEN s
    ELSE LET ch == read(s)
         IN  IF ch = None THEN Panic(s)
             ELSE IF ch \in {"\n", NUL} THEN s
             ELSE skip_single_comment(advance(s, 1))

\* the while loop of skip_multi_comment, entered with ch = read(), next = peek();
\* gives back the state and the last value of next
RECURSIVE skip_multi_loop(_)
skip_multi_loop(s) ==
    LET ch == read(s)
        next == peek(s)
    IN  IF s.status # "ok" THEN [s |-> s, next |-> NUL]
        ELSE IF ch = None \/ next = None THEN [s |-> Panic(s), next |-> NUL]
        ELSE IF ch = NUL THEN [s |-> s, next |-> next]
        ELSE IF ch = "*" /\ next = "/" THEN [s |-> advance(s, 2), next |-> next]
        ELSE skip_multi_loop(advance(s, 1))

\* Skips a comment until the closing delimiter is reached
skip_multi_comment(s) ==
    LET r == skip_multi_loop(s)
    IN  IF r.s.status # "ok" THEN r.s
        ELSE IF r.next # "/" THEN push_error(r.s, "Unterminated multiline string")
        ELSE r.s

\* the candidates each operator arm of next_token hands to try_compound_operator
compound_matches(ch) ==
    CASE ch = "=" -> << Candidate(2, "=>", "WideArrow"), Candidate(2, "==", "Equal") >>
      [] ch = ":" -> << Candidate(2, ":=", "AssignExp") >>
      [] ch = ">" -> << Candidate(2, ">=", "GreaterEq"), Candidate(2, ">>", "RightShift") >>
      [] ch = "<" -> << Candidate(2, "<=", "LesserEq"), Candidate(2, "<<", "LeftShift"),
                        Candidate(2, "<|", "ForwardApp"), Candidate(2, "<>", "Concat") >>
      [] ch = "-" -> << Candidate(2, "->", "Arrow"), Candidate(2, "--", "Decrement") >>
      [] ch = "+" -> << Candidate(2, "++", "Increment") >>
      [] ch = "*" -> << Candidate(2, "**", "Power") >>
      [] ch = "." -> << Candidate(3, "..=", "RangeInc"), Candidate(2, "..", "RangeExc") >>
      [] ch = "!" -> << Candidate(2, "!=", "NotEqual") >>
      [] ch = "|" -> << Candidate(2, "|>", "ReverseApp") >>

\* the kind each operator arm of next_token falls back to
single_kind(ch) ==
    CASE ch = "=" -> Plain("Assign")
      [] ch = ":" -> Plain("Colon")
      [] ch = ">" -> Plain("Greater")
      [] ch = "<" -> Plain("Lesser")
      [] ch = "-" -> Plain("Minus")
      [] ch = "+" -> Plain("Plus")
      [] ch = "*" -> Plain("Asterisk")
      [] ch = "." -> Plain("Dot")
      [] ch = "!" -> Plain("Bang")
      [] ch = "|" -> Plain("Pipe")

OperatorLeads == {"=", ":", ">", "<", "-", "+", "*", ".", "!", "|"}

\* the arm whose fallback leaves the cursor where it is
operator_arm_keeps_cursor(s, ch) ==
    LET r == try_compound_operator(s, compound_matches(ch))
    IN  IF r.s.status # "ok" \/ r.kind # NoneKind THEN r
        ELSE Ret(s, single_kind(ch))

\* an operator arm of next_token
operator_arm(s, ch) ==
    LET r == try_compound_operator(s, compound_matches(ch))
    IN  IF r.s.status # "ok" \/ r.kind # NoneKind THEN r
        ELSE Ret(advance(s, 1), single_kind(ch))

\* the arm without its advance(1)
single_char_arm_no_advance(s, ch) == Ret(s, from_char(ch))

\* the arm of next_token for any other character
single_char_arm(s, ch) == Ret(advance(s, 1), from_char(ch))

\* the arm that steps over the sentinel
eof_arm_advances(s) == Ret(advance(s, 1), Plain("Eof"))

\* the '\0' arm of next_token: end of file, nothing consumed
eof_arm(s) == Ret(s, Plain("Eof"))

\* token_pos keeps the value the previous call left
snapshot_stale(s) == s

\* self.token_pos = self.current_pos.clone()
snapshot(s) == [s EXCEPT !.token_pos = s.current_pos]

\* Reads the next token from the source: the state, the Kind and the value
\* of read at the token_pos snapshot
RECURSIVE next_token(_)
next_token(s) ==
    LET s1 == skip_whitespace(s)
        s2 == snapshot(s1)
        ch == read(s2)
        p == peek(s2)
        At(r) == [s |-> r.s, kind |-> r.kind, start |-> s2.read]
    IN  IF s1.status # "ok" THEN At(Ret(s1, NoneKind))
        ELSE IF ch = None THEN At(Ret(Panic(s2), NoneKind))
        ELSE IF is_alphabetical(ch) THEN At(read_tag_keyword_mode(s2))
        ELSE IF is_integral(ch) THEN At(read_number(s2))
        ELSE IF ch = "\""
        THEN IF p = None THEN At(Ret(Panic(s2), NoneKind))
             ELSE IF p = "|" THEN At(read_multiline_string(s2))
             ELSE At(read_string(s2))
        ELSE IF ch = "/"
        THEN IF p = None THEN At(Ret(Panic(s2), NoneKind))
             ELSE IF p = "/" THEN next_token(skip_single_comment(s2))
             ELSE IF p = "*" THEN next_token(skip_multi_comment(s2))
             ELSE At(Ret(advance(s2, 1), Plain("Slash")))
        ELSE IF ch \in OperatorLeads THEN At(operator_arm(s2, ch))
        ELSE IF ch = "~" THEN At(Ret(advance(s2, 1), Plain("Tilde")))
        ELSE IF ch = NUL THEN At(eof_arm(s2))
        ELSE At(single_char_arm(s2, ch))

----------------------------------------------------------------------------
(* The state machine *)

NoToken == Token(NoneKind, input, Position(0, 0))

\* Scanner::new
new == [read |-> 0, current_pos |-> Position(1, 1), token_pos |-> Position(1, 1)]

\* the strings over the characters S of at most n characters
RECURSIVE Strings(_, _)
Strings(S, n) ==
    IF n = 0 THEN {<<>>}
    ELSE LET shorter == Strings(S, n - 1)
         IN  shorter \cup {Append(str, ch) : str \in shorter, ch \in S}

InitOf(sources) ==
    /\ contents \in sources
    /\ errors = <<>>
    /\ scanner = new
    /\ status = "ok"
    /\ token = NoToken
    /\ token_start = 0
    /\ before = [scanner |-> new, errors |-> <<>>, token |-> NoToken]

\* one call of Scanner::next_token by the driver
NextToken ==
    /\ status = "ok"
    /\ LET r == next_token([read |-> scanner.read,
                            current_pos |-> scanner.current_pos,
                            token_pos |-> scanner.token_pos,
                            errors |-> errors,
                            status |-> "ok"])
       IN  /\ scanner' = [read |-> r.s.read,
                          current_pos |-> r.s.current_pos,
                          token_pos |-> r.s.token_pos]
           /\ errors' = r.s.errors
           /\ status' = r.s.status
           /\ token' = IF r.s.status = "ok"
                       THEN Token(r.kind, input, r.s.token_pos)
                       ELSE NoToken
           /\ token_start' = r.start
    /\ before' = [scanner |-> scanner, errors |-> errors, token |-> token]
    /\ UNCHANGED contents

Next == NextToken

----------------------------------------------------------------------------
(* Specifications *)

MaxLen == 4

\* every source of at most MaxLen characters over letters, digits, blanks,
\* string and comment delimiters, the backslash, a two-byte character and NUL
Alphabet == {"a", "1", " ", "\n", "\"", "|", "/", "*", "\\", WIDE, NUL}

Init == InitOf(Strings(Alphabet, MaxLen))

Spec == Init /\ [][Next]_vars

\* prefix, core and suffix put together, for every choice of the three
Framed(prefixes, cores, suffixes) ==
    {p \o c \o q : p \in prefixes, c \in cores, q \in suffixes}

MaxPrefix == 2

MaxSuffix == 1

PrefixChars == {" ", WIDE}

\* the compound operators of the operator arms of next_token
CompoundOperators ==
    {m.operator : m \in UNION {{compound_matches(ch)[i] :
        i \in 1..Len(compound_matches(ch))} : ch \in OperatorLeads}}

\* an operator or a lone lead character, after at most MaxPrefix blanks or
\* two-byte characters, before at most MaxSuffix lead characters or blanks
OpSources ==
    Framed(Strings(PrefixChars, MaxPrefix),
           CompoundOperators \cup {<<ch>> : ch \in OperatorLeads},
           Strings(OperatorLeads \cup {" "}, MaxSuffix))

InitOps == InitOf(OpSources)

SpecOps == InitOps /\ [][Next]_vars

\* the words of try_keyword and try_mode and some words that are in neither
Words ==
    {e[1] : e \in KeywordTable \cup ModeTable}
        \cup {Chars("x"), Chars("begin"), Chars("Let"), Chars("i")}

\* a word, after at most MaxPrefix blanks or two-byte characters, before at
\* most MaxSuffix characters that go on or end the run
WordSources ==
    Framed(Strings(PrefixChars, MaxPrefix),
           Words,
           Strings({"x", "_", "1", " ", "+"}, MaxSuffix))

InitWords == InitOf(WordSources)

SpecWords == InitWords /\ [][Next]_vars

\* the number literals of tests::next_token and some more
Numbers ==
    {Chars("1"), Chars("12_000"), Chars("12_000.50"), Chars("1.5"), Chars("3."),
     Chars("1_000.5"), Chars("_1"), Chars("1..5")}

\* a number, after at most MaxPrefix blanks or two-byte characters, before at
\* most MaxSuffix characters that go on or end the literal
NumberSources ==
    Framed(Strings(PrefixChars, MaxPrefix),
           Numbers,
           Strings({" ", "+", ".", "a", "_"}, MaxSuffix))

InitNumbers == InitOf(NumberSources)

SpecNumbers == InitNumbers /\ [][Next]_vars

MaxBody == 3

StringChars == {"a", "n", "\\", WIDE}

\* a single-line literal of at most MaxBody characters, closed or not, after
\* at most MaxPrefix blanks or two-byte characters
SingleLineSources ==
    Framed(Strings(PrefixChars, MaxPrefix),
           {<<"\"">> \o body \o close :
               body \in Strings(StringChars, MaxBody), close \in {<<>>, <<"\"">>}},
           Strings({" ", "a"}, MaxSuffix))

Indents == {<<>>, <<" ">>, <<"\t", " ">>}

Payloads ==
    {Chars("a"), Chars("ab"), <<" ", "a">>, <<"|">>, <<"\\", "n">>,
     <<"\\", "a">>, <<WIDE>>}

\* a line of a multi-line literal: indentation, the marker, a payload
Lines ==
    {indent \o <<"|">> \o payload \o <<"\n">> :
        indent \in Indents, payload \in Payloads}

\* the multi-line literals of one or two lines, as tests::multiline_string_reading writes them
MultilineLiterals ==
    {<<"\"", "|", "\n">> \o body \o indent \o <<"|", "\"">> :
        body \in Lines \cup {l1 \o l2 : l1, l2 \in Lines}, indent \in Indents}

\* a multi-line literal within other text, or cut off before its end
MultilineSources ==
    Framed({<<>>, <<" ">>, <<WIDE>>}, MultilineLiterals,
           {<<>>, <<" ", "a">>, <<"\n">>})
        \cup UNION {{SubSeq(lit, 1, k) : k \in 2..(Len(lit) - 1)} :
                        lit \in MultilineLiterals}

StringSources == SingleLineSources \cup MultilineSources

InitStrings == InitOf(StringSources)

SpecStrings == InitStrings /\ [][Next]_vars

MaxContent == 3

CommentChars == {"/", "*", "a", "\n", WIDE, NUL}

\* a block comment of at most MaxContent characters, closed or not, within
\* other text
CommentSources ==
    Framed({<<>>, <<" ">>, <<"a", " ">>},
           {<<"/", "*">> \o content \o close :
               content \in Strings(CommentChars, MaxContent),
               close \in {<<>>, <<"*", "/">>}},
           {<<>>, <<"a">>, <<"\n">>, <<"\"">>})

InitComments == InitOf(CommentSources)

SpecComments == InitComments /\ [][Next]_vars

\* characters with no rule of their own, one of one byte and one of two,
\* among a letter, a blank and a newline
IllegalAlphabet == {"\r", WIDE, "a", " ", "\n"}

InitIllegal == InitOf(Strings(IllegalAlphabet, MaxLen))

SpecIllegal == InitIllegal /\ [][Next]_vars

MaxLines == 2

\* a line inside a multi-line literal: indentation, the marker or none, a
\* payload or none, the newline
LineKinds ==
    {indent \o mark \o payload \o <<"\n">> :
        indent \in {<<>>, <<" ">>},
        mark \in {<<"|">>, <<>>},
        payload \in {<<>>, <<"a">>, <<"a", "b">>}}

\* at most n lines, one after the other
RECURSIVE LineRuns(_)
LineRuns(n) ==
    IF n = 0 THEN {<<>>}
    ELSE LET shorter == LineRuns(n - 1)
         IN  shorter \cup {run \o line : run \in shorter, line \in LineKinds}

\* a multi-line literal of at most MaxLines lines, with or without markers,
\* closed or not
LineSources ==
    Framed({<<"\"", "|", "\n">>},
           LineRuns(MaxLines),
           {<<"|", "\"">>, <<" ", "|", "\"">>, <<"\"">>, <<"a", "\"">>, <<>>,
            <<"|", "\"", "a">>})

InitLines == InitOf(LineSources)

SpecLines == InitLines /\ [][Next]_vars

----------------------------------------------------------------------------
(* Claims *)

\* the last call of next_token returned a token
Returned == status = "ok" /\ token # NoToken

IsEof(tok) == tok.kind.variant = "Eof"

PosLeq(p, q) == p.line < q.line \/ (p.line = q.line /\ p.column <= q.column)

\* the characters a cursor of value k has passed
Passed(k) == SubSeq(contents, 1, IF k < Len(contents) THEN k ELSE Len(contents))

Newlines(str) == {i \in 1..Len(str) : str[i] = "\n"}

LastNewline(str) ==
    IF Newlines(str) = {} THEN 0
    ELSE CHOOSE i \in Newlines(str) : \A j \in Newlines(str) : j <= i

\* the 1-based line and column of a cursor of value k
PositionOf(k) ==
    Position(1 + Cardinality(Newlines(Passed(k))), 1 + k - LastNewline(Passed(k)))

CharAt(k) == IF k < Len(contents) THEN contents[k + 1] ELSE NUL

\* C1: for every source, repeated calls of next_token eventually return Eof,
\* and every call after the first Eof returns Eof too.
\* Stated over finite runs: a call made before Eof returns (the scan cannot
\* stop short of Eof), a token other than Eof moves the cursor forward and the
\* cursor stays within three characters of the end (so only finitely many
\* tokens come before Eof), and a call made after Eof returns Eof.
C1_EofReachedAndKept ==
    /\ status = "ok"
    /\ Returned /\ ~IsEof(token) => scanner.read > before.scanner.read
    /\ scanner.read <= Len(contents) + 3
    /\ IsEof(before.token) => Returned /\ IsEof(token)

\* C2: no call of next_token aborts the scan: every call returns a token
\* (no unwrap of None in read/peek/prev, no slice panic, no underflow in prev).
C2_NeverAborts == status = "ok"

\* C3: Eof is returned only when the read cursor has reached the end of the
\* source buffer; no Eof while unread source characters remain.
C3_EofOnlyAtEnd ==
    Returned /\ IsEof(token) =>
        scanner.read >= len(contents) /\ scanner.read >= Len(contents)

\* C4: every call that returns a token other than Eof strictly increases the
\* read cursor.
C4_NonEofConsumes ==
    Returned /\ ~IsEof(token) => scanner.read > before.scanner.read

C4_Witness ==
    /\ Returned /\ ~IsEof(token)
    /\ before.token # NoToken /\ ~IsEof(before.token)
    /\ scanner.read > before.scanner.read

\* C5: of two consecutive tokens the second one's pos is never earlier than
\* the first one's, by line and then by column.
C5_PosMonotone ==
    Returned /\ before.token # NoToken => PosLeq(before.token.pos, token.pos)

C5_Witness ==
    /\ Returned /\ before.token # NoToken
    /\ token.pos.line > before.token.pos.line
    /\ token.pos.column < before.token.pos.column

\* C6: every token other than Eof carries as pos the 1-based line and column
\* of its own first character, taken after blanks and comments were skipped:
\* not the position where the token ends, not that of a skipped comment.
C6_PosIsTokenStart ==
    Returned /\ ~IsEof(token) =>
        /\ token.pos = PositionOf(token_start)
        /\ token.pos = scanner.token_pos
        /\ token_start >= before.scanner.read
        /\ token_start < scanner.read
        /\ token.pos # scanner.current_pos
        /\ CharAt(token_start) \notin {" ", "\t"}
        /\ ~(CharAt(token_start) = "/" /\ CharAt(token_start + 1) \in {"/", "*"})

C6_Witness ==
    /\ Returned /\ ~IsEof(token)
    /\ CharAt(before.scanner.read) = " "
    /\ CharAt(before.scanner.read + 1) = "/"
    /\ token_start >= before.scanner.read + 3
    /\ token.pos = PositionOf(token_start)

\* C7: in every scanner state the current position is the position of the
\* cursor: line = 1 + newlines consumed, column = 1 + characters consumed
\* since the last newline.
C7_PositionTracksCursor ==
    status = "ok" => scanner.current_pos = PositionOf(scanner.read)

C7_Witness ==
    /\ status = "ok"
    /\ scanner.current_pos.line > 1
    /\ scanner.current_pos.column > 1
    /\ scanner.read > len(contents)

\* the source holds the characters of str from cursor value k on
StartsWith(k, str) == \A i \in 1..Len(str) : CharAt(k + i - 1) = str[i]

AtEnd(k) == k >= Len(contents)

IsPrefix(u, v) == Len(u) <= Len(v) /\ SubSeq(v, 1, Len(u)) = u

\* the token that began at token_start is of this kind and the call left
\* the cursor count characters further
Yields(kind, count) ==
    Returned /\ token.kind = Plain(kind) /\ scanner.read = token_start + count

\* C8: a call that finds the cursor at "..=" returns one RangeInc and
\* consumes three characters; at ".." not followed by "=" it returns one
\* RangeExc and consumes two; no candidate list tries a candidate before a longer one it
\* is a prefix of.
C8_LongestMatch ==
    /\ Returned /\ StartsWith(token_start, Chars("..=")) => Yields("RangeInc", 3)
    /\ Returned /\ StartsWith(token_start, Chars("..")) /\ CharAt(token_start + 2) # "="
           => Yields("RangeExc", 2)
    /\ \A ch \in OperatorLeads :
          LET matches == compound_matches(ch)
          IN  \A i, j \in 1..Len(matches) :
                  i < j /\ matches[i].operator # matches[j].operator
                      => ~IsPrefix(matches[i].operator, matches[j].operator)

\* the mapping C9 gives
C9_Mapping ==
    { <<"==", "Equal">>,      <<"!=", "NotEqual">>,  <<">=", "GreaterEq">>,
      <<"<=", "LesserEq">>,   <<"|>", "ReverseApp">>, <<"<|", "ForwardApp">>,
      <<"<<", "LeftShift">>,  <<"<>", "Concat">>,    <<">>", "RightShift">>,
      <<"++", "Increment">>,  <<"--", "Decrement">>, <<"**", "Power">>,
      <<"->", "Arrow">>,      <<"=>", "WideArrow">>, <<"..", "RangeExc">>,
      <<"..=", "RangeInc">>,  <<":=", "AssignExp">> }

\* C9: each compound operator that starts at the cursor and is followed by
\* a space or the end of the buffer is returned as one token of the kind the
\* mapping gives, consuming the operator's length.
C9_CompoundOperators ==
    \A e \in C9_Mapping :
        LET op == Chars(e[1])
            after == token_start + Len(op)
        IN  Returned /\ StartsWith(token_start, op) /\ (AtEnd(after) \/ CharAt(after) = " ")
                => Yields(e[2], Len(op))

\* the maximal run of alphanumeric characters from cursor value k on
RECURSIVE Run(_)
Run(k) ==
    IF ~AtEnd(k) /\ is_alphanumeric(CharAt(k)) THEN <<CharAt(k)>> \o Run(k + 1)
    ELSE <<>>

C10_Reserved ==
    {Chars("private"), Chars("derive"), Chars("static"), Chars("macro"),
     Chars("from"), Chars("impl"), Chars("when"), Chars("any"), Chars("as")}

C10_Modes == {Chars("comptime"), Chars("mut"), Chars("mov"), Chars("loc")}

\* C10: at an ASCII letter next_token consumes the maximal alphanumeric run
\* and classifies the whole run: Keyword if it is a word of the keyword table
\* (the reserved words included), else Mode if it is comptime, mut, mov or
\* loc, else Tag(run); no word is in both tables.
C10_WordClassified ==
    /\ Returned /\ ~AtEnd(token_start) /\ is_alphabetical(CharAt(token_start)) =>
          LET run == Run(token_start)
          IN  /\ scanner.read = token_start + Len(run)
              /\ IF \E e \in KeywordTable : e[1] = run
                 THEN \E e \in KeywordTable : e[1] = run /\ token.kind = Keyword(e[2])
                 ELSE IF run \in C10_Modes
                 THEN \E e \in ModeTable : e[1] = run /\ token.kind = Mode(e[2])
                 ELSE token.kind = Kind("Tag", "", run)
    /\ C10_Reserved \subseteq {e[1] : e \in KeywordTable}
    /\ C10_Modes = {e[1] : e \in ModeTable}
    /\ {e[1] : e \in KeywordTable} \cap {e[1] : e \in ModeTable} = {}

\* the source characters the last call consumed for its token
Consumed == SubSeq(contents, token_start + 1, scanner.read)

\* C11: the text carried by an Integer, Float or Tag token is, character for
\* character, the source characters consumed for that token, whatever comes
\* before the token; 12_000 yields Integer("12_000") and 12_000.50 yields
\* one Float("12_000.50").
C11_RawTextVerbatim ==
    /\ Returned /\ token.kind.variant \in {"Integer", "Float", "Tag"}
           => token.kind.text = Consumed
    /\ Returned /\ StartsWith(token_start, Chars("12_000"))
               /\ ~is_numeric(CharAt(token_start + 6))
           => token.kind = Kind("Integer", "", Chars("12_000"))
    /\ Returned /\ StartsWith(token_start, Chars("12_000.50"))
               /\ ~is_integral(CharAt(token_start + 9))
           => token.kind = Kind("Float", "", Chars("12_000.50"))

\* a call of next_token was made
Called == token # NoToken \/ status # "ok"

\* the scanner as it was at the token_pos snapshot of the last call
AtSnapshot ==
    [read |-> token_start, current_pos |-> scanner.token_pos,
     token_pos |-> scanner.token_pos, errors |-> <<>>, status |-> "ok"]

\* the last call read a string literal up to its escape processing
ReadLiteral == Called /\ CharAt(token_start) = "\"" /\ status \in {"ok", "hang"}

\* the raw text read_string or read_multiline_string accumulated for the
\* literal at token_start
RawText ==
    IF peek(AtSnapshot) = "|"
    THEN read_multiline_loop(advance(AtSnapshot, 1), <<>>).str
    ELSE read_string_loop(AtSnapshot, <<>>).str

\* r with every backslash+n replaced by a newline, all else kept
RECURSIVE Unescaped(_)
Unescaped(r) ==
    IF r = <<>> THEN <<>>
    ELSE IF Len(r) >= 2 /\ r[1] = "\\" /\ r[2] = "n"
    THEN <<"\n">> \o Unescaped(SubSeq(r, 3, Len(r)))
    ELSE <<r[1]>> \o Unescaped(Tail(r))

\* one message per backslash of r that is not followed by n
RECURSIVE EscapeMessages(_)
EscapeMessages(r) ==
    IF r = <<>> THEN <<>>
    ELSE IF r[1] # "\\" THEN EscapeMessages(Tail(r))
    ELSE IF Len(r) = 1 THEN <<"Unterminated escape character">>
    ELSE IF r[2] = "n" THEN EscapeMessages(SubSeq(r, 3, Len(r)))
    ELSE <<"Unrecognized escape character: \\" \o r[2]>> \o EscapeMessages(Tail(r))

\* the diagnostics the last call appended
Appended == SubSeq(errors, Len(before.errors) + 1, Len(errors))

MessagesOf(errs) == [i \in 1..Len(errs) |-> errs[i].message]

IsEscapeError(e) ==
    e.message \notin {"Unterminated string literal",
                      "Missing start of line delimiter '|'",
                      "Unterminated multiline string"}

\* C12: for the raw text r of a string literal, the String token's value is
\* r with every backslash+n replaced by one newline and every other
\* character kept in order, and the call appends one diagnostic per
\* backslash of r not followed by n: Unrecognized escape character: \c when
\* c follows the backslash, Unterminated escape character when the backslash
\* ends r.
C12_EscapeProcessing ==
    ReadLiteral =>
        /\ status = "ok"
        /\ token.kind = Kind("String", "", Unescaped(RawText))
        /\ MessagesOf(SelectSeq(Appended, IsEscapeError)) = EscapeMessages(RawText)

\* the first cursor value from k on that is not at a space or a tab
RECURSIVE AfterBlanks(_)
AfterBlanks(k) == IF CharAt(k) \in {" ", "\t"} THEN AfterBlanks(k + 1) ELSE k

\* the first cursor value from k on that is at a newline or at the end
RECURSIVE LineEnd(_)
LineEnd(k) == IF AtEnd(k) \/ CharAt(k) = "\n" THEN k ELSE LineEnd(k + 1)

\* the lines of a well-formed multi-line literal from cursor value k on, n
\* lines and the value so far: whether they are well formed, the value, the
\* cursor value after the closing quote
RECURSIVE LiteralLines(_, _, _)
LiteralLines(k, n, value) ==
    LET marker == AfterBlanks(k)
        nl == LineEnd(marker + 1)
        payload == SubSeq(contents, marker + 2, nl)
    IN  IF CharAt(marker) # "|" \/ AtEnd(marker)
        THEN [ok |-> FALSE, value |-> value, end |-> marker]
        ELSE IF CharAt(marker + 1) = "\"" /\ ~AtEnd(marker + 1)
        THEN [ok |-> n >= 1, value |-> value, end |-> marker + 2]
        ELSE IF AtEnd(nl) \/ payload = <<>>
                  \/ \E i \in 1..Len(payload) : payload[i] \in {"\"", "\\"}
        THEN [ok |-> FALSE, value |-> value, end |-> nl]
        ELSE LiteralLines(nl + 1, n + 1, value \o payload \o <<"\n">>)

\* the well-formed multi-line literal at cursor value k, if there is one
LiteralAt(k) ==
    IF StartsWith(k, <<"\"", "|", "\n">>) /\ k + 3 <= Len(contents)
    THEN LiteralLines(k + 3, 0, <<"\n">>)
    ELSE [ok |-> FALSE, value |-> <<>>, end |-> k]

\* C13: a well-formed multi-line literal (the opening quote and marker, a
\* newline, one or more lines of optional blanks, the marker and a non-empty
\* payload without quote or backslash, a last line of optional blanks, the
\* marker and the quote) yields one String token whose value is a newline
\* and then each payload with a newline after it, appends no diagnostic and
\* leaves the cursor just after the closing quote.
C13_MultilineLiteral ==
    Called /\ LiteralAt(token_start).ok =>
        /\ status = "ok"
        /\ token.kind = Kind("String", "", LiteralAt(token_start).value)
        /\ Appended = <<>>
        /\ scanner.read = LiteralAt(token_start).end

\* the cursor value at which the last call found its first character that
\* is not a blank
CallStart == AfterBlanks(before.scanner.read)

\* C14: a single-line comment, from // up to the next newline or the end of
\* the buffer, gives no token and no diagnostic: the call that meets it
\* returns the token that starts where the comment ends, the Newline, or
\* Eof when the comment runs to the end of the buffer.
C14_SingleLineComment ==
    Called /\ StartsWith(CallStart, Chars("//")) =>
        /\ status = "ok"
        /\ IF AtEnd(LineEnd(CallStart)) THEN token.kind = Plain("Eof")
           ELSE token.kind = Plain("Newline") /\ token_start = LineEnd(CallStart)
        /\ Appended = <<>>

\* the cursor values after the opening /* at k at which a */ starts
Closings(k) ==
    {c \in (k + 2)..(Len(contents) - 2) : CharAt(c) = "*" /\ CharAt(c + 1) = "/"}

\* the first of them
Closing(k) == CHOOSE c \in Closings(k) : \A d \in Closings(k) : c <= d

\* what the last call gives if it begins with the cursor at k instead
ResumedAt(k) ==
    next_token([read |-> k, current_pos |-> PositionOf(k),
                token_pos |-> before.scanner.token_pos,
                errors |-> before.errors, status |-> "ok"])

\* the last call ended as the call r does
SameOutcome(r) ==
    /\ status = r.s.status
    /\ errors = r.s.errors
    /\ scanner.read = r.s.read
    /\ token_start = r.start
    /\ status = "ok" => token = Token(r.kind, input, r.s.token_pos)

\* C15: a closed block comment, from /* to the first */ that starts after
\* the opening /*, whatever is between them (newlines, a content that begins
\* with /), gives no token and no diagnostic: the call that meets it goes on
\* just after that */, as a call that begins there does.
C15_BlockComment ==
    Called /\ StartsWith(CallStart, Chars("/*")) /\ Closings(CallStart) # {} =>
        SameOutcome(ResumedAt(Closing(CallStart) + 2))

\* C16: an unterminated block comment, an opening /* with no */ after it in
\* the rest of the buffer, appends exactly one diagnostic and the call still
\* returns a token, Eof, whatever follows the /*.
C16_UnterminatedComment ==
    Called /\ StartsWith(CallStart, Chars("/*")) /\ Closings(CallStart) = {} =>
        /\ status = "ok"
        /\ token.kind = Plain("Eof")
        /\ Len(Appended) = 1

\* a character no arm of next_token but the last one takes, and that
\* from_char has no entry for
Uncovered(ch) ==
    /\ ~is_alphanumeric(ch)
    /\ ch \notin {" ", "\t", "\"", "/", "~", NUL} \cup OperatorLeads
    /\ from_char(ch) = Plain("Illegal")

\* C17: a character at the cursor that no rule covers, of one byte or of
\* more, yields one Illegal token, moves the cursor by one character and
\* appends no diagnostic, and the scan goes on: the call after it returns a
\* token as well.
C17_IllegalCharacter ==
    /\ Called /\ ~AtEnd(CallStart) /\ Uncovered(CharAt(CallStart)) =>
          /\ status = "ok"
          /\ token.kind = Plain("Illegal")
          /\ token_start = CallStart
          /\ scanner.read = CallStart + 1
          /\ Appended = <<>>
    /\ before.token.kind = Plain("Illegal") => status = "ok"

\* a newline at the cursor is not skipped: the call returns one Newline at
\* the newline's own line and column and moves the cursor by one character
NewlineIsToken ==
    /\ Called /\ ~AtEnd(CallStart) /\ CharAt(CallStart) = "\n" =>
          status = "ok" /\ token_start = CallStart
    /\ Returned /\ ~AtEnd(token_start) /\ CharAt(token_start) = "\n" =>
          /\ token.kind = Plain("Newline")
          /\ token.pos = PositionOf(token_start)
          /\ scanner.read = token_start + 1
          /\ scanner.current_pos = Position(token.pos.line + 1, 1)

\* C18, as the spec states it: a newline at the cursor outside a string
\* literal and a block comment (the one that ends a single-line comment
\* too) yields one Newline token at its own line and column, and the token
\* returned next starts on the following line.
C18_NextOnFollowingLine ==
    /\ NewlineIsToken
    /\ Returned /\ before.token.kind = Plain("Newline") =>
          token.pos.line = before.token.pos.line + 1

\* C18, amended: a newline at the cursor yields one Newline token at its own
\* line and column and leaves the cursor at column 1 of the following line;
\* the token returned next starts on the following line, or on a later line
\* when the next call first skips a block comment.
C18_NewlineToken ==
    /\ NewlineIsToken
    /\ Returned /\ before.token.kind = Plain("Newline") =>
          /\ token.pos.line > before.token.pos.line
          /\ ~StartsWith(CallStart, Chars("/*")) =>
                token.pos.line = before.token.pos.line + 1

C18_Witness ==
    /\ Returned /\ before.token.kind = Plain("Newline")
    /\ token.kind = Plain("Newline")
    /\ CharAt(before.scanner.read) = " "
    /\ token_start > before.scanner.read
    /\ token.pos = Position(before.token.pos.line + 1, 2)

\* C19: the diagnostics list is append-only over any sequence of calls: it
\* never gets shorter and the list before a call is a prefix of the list
\* after it (no entry changed, moved, merged or removed).
C19_AppendOnly ==
    /\ Len(before.errors) <= Len(errors)
    /\ IsPrefix(before.errors, errors)

C19_Witness ==
    /\ status = "ok"
    /\ before.errors # <<>>
    /\ Len(errors) > Len(before.errors)
    /\ IsPrefix(before.errors, errors)

\* the last call began a string literal at token_start
LiteralBegun == Called /\ ~AtEnd(token_start) /\ CharAt(token_start) = "\""

IsMultiline == ~AtEnd(token_start + 1) /\ CharAt(token_start + 1) = "|"

\* where a quote stands after the opening of the literal at token_start
Quotes ==
    {q \in (token_start + (IF IsMultiline THEN 2 ELSE 1))..(Len(contents) - 1) :
        CharAt(q) = "\""}

FirstQuote == CHOOSE q \in Quotes : \A p \in Quotes : q <= p

\* every line of the multi-line literal before q begins with the marker
Delimited(q) ==
    \A n \in (token_start + 2)..(q - 1) :
        CharAt(n) = "\n" =>
            CharAt(AfterBlanks(n + 1)) = "|" /\ AfterBlanks(n + 1) < q

IsUnterminatedLiteral(e) == e.message = "Unterminated string literal"

\* C20: a string literal, single-line or multi-line, with no closing quote
\* up to the end of the buffer appends exactly one Unterminated string
\* literal diagnostic and the call still returns a String token of the
\* characters consumed; a literal closed by a quote appends no such
\* diagnostic.
C20_UnterminatedLiteral ==
    /\ LiteralBegun /\ Quotes = {} =>
          /\ status = "ok"
          /\ token.kind = Kind("String", "", Unescaped(RawText))
          /\ Len(SelectSeq(Appended, IsUnterminatedLiteral)) = 1
    /\ LiteralBegun /\ Quotes # {} /\ (IsMultiline => Delimited(FirstQuote)) =>
          /\ status = "ok"
          /\ token.kind.variant = "String"
          /\ SelectSeq(Appended, IsUnterminatedLiteral) = <<>>
          /\ scanner.read = FirstQuote + 1

\* a quote preceded by one backslash that is itself not preceded by one
EscapedQuote(q) ==
    /\ q - 1 > token_start /\ CharAt(q - 1) = "\\"
    /\ q - 2 = token_start \/ CharAt(q - 2) # "\\"

\* C21: single-line string reading consumes characters until an unescaped
\* quote or the end of the buffer: a quote that a backslash comes right
\* before does not end the literal, the call reads on past it.
C21_EscapedQuoteKept ==
    LiteralBegun /\ ~IsMultiline /\ status = "ok"
        /\ Quotes # {} /\ EscapedQuote(FirstQuote) =>
            scanner.read > FirstQuote + 1

\* the variant the enum documents for the lexeme
Documented(lexeme) == (CHOOSE e \in KindDocs : e[2] = lexeme)[1]

\* C22: as the comments of the Kind enum say, |> is ForwardApp and <| is
\* ReverseApp: the scanner returns ForwardApp for the input |> and
\* ReverseApp for the input <|.
C22_DocumentedApplication ==
    /\ Documented("|>") = "ForwardApp" /\ Documented("<|") = "ReverseApp"
    /\ \A lexeme \in {"|>", "<|"} :
          Returned /\ token_start = 0 /\ StartsWith(0, Chars(lexeme)) =>
              Yields(Documented(lexeme), 2)

\* the kind C23 gives for a compound operator of the scanner
C23_Expected(operator) ==
    IF operator = Chars("==") THEN Plain("Equal")
    ELSE IF operator = Chars("!=") THEN Plain("NotEqual")
    ELSE try_from_str(operator)

C23_Others ==
    {Chars(":="), Chars("->"), Chars("=>"), Chars(".."), Chars("..="),
     Chars("|>"), Chars("<|"), Chars("<>"), Chars("++"), Chars("--"),
     Chars("**"), Chars("<<"), Chars(">>"), Chars("<="), Chars(">=")}

\* no character of more than one byte comes before cursor value k
OneByteBefore(k) == \A i \in 1..Len(Passed(k)) : contents[i] # WIDE

RECURSIVE MarkedValue(_, _)
MarkedValue(p, value) ==
    LET marker == AfterBlanks(p + 1)
    IN  IF AtEnd(p) \/ CharAt(p) = "\"" THEN [ok |-> TRUE, value |-> value]
        ELSE IF CharAt(p) # "\n" THEN MarkedValue(p + 1, Append(value, CharAt(p)))
        ELSE IF AtEnd(marker) \/ CharAt(marker) # "|"
        THEN [ok |-> FALSE, value |-> value]
        ELSE IF ~AtEnd(marker + 1) /\ CharAt(marker + 1) = "\""
        THEN [ok |-> TRUE, value |-> Append(value, "\n")]
        ELSE MarkedValue(marker + 1, Append(value, "\n"))

\* C24: inside a multi-line string, at each newline (also one that comes
\* right after a marker: an empty line) the scanner appends the newline,
\* skips it and the spaces and tabs after it and wants the marker next; a
\* marker at a line start and the indentation before it are never part of
\* the String value.
C24_LineStartNotInValue ==
    LiteralBegun /\ IsMultiline /\ status = "ok"
        /\ MarkedValue(token_start + 2, <<>>).ok =>
            token.kind =
                Kind("String", "", Unescaped(MarkedValue(token_start + 2, <<>>).value))

\* the newlines of the literal at token_start, up to its first quote, after
\* which the first character that is no space or tab is not the marker
Unmarked ==
    {n \in (token_start + 2)..(FirstQuote - 1) :
        CharAt(n) = "\n" /\ CharAt(AfterBlanks(n + 1)) # "|"}

IsMissingDelimiter(e) == e.message = "Missing start of line delimiter '|'"

\* C25: inside a multi-line string, a line whose first character after the
\* newline and its spaces and tabs is not the marker appends exactly one
\* Missing start of line delimiter diagnostic, and reading goes on: the call
\* returns one String token and the literal is closed by the quote that
\* comes later.
C25_MissingDelimiter ==
    LiteralBegun /\ IsMultiline /\ Quotes # {} /\ Unmarked # {} =>
        /\ status = "ok"
        /\ token.kind.variant = "String"
        /\ Len(SelectSeq(Appended, IsMissingDelimiter)) = Cardinality(Unmarked)
        /\ scanner.read = FirstQuote + 1

IsNumber == token.kind.variant \in {"Integer", "Float"}

\* C26: number scanning is entered only at an ASCII digit, so the raw text of
\* every Integer and Float token begins with a digit; an underscore at a
\* token start is not scanned as a number.
C26_NumberBeginsWithDigit ==
    Returned /\ IsNumber =>
        /\ CharAt(token_start) \in Digits
        /\ token.kind.text # <<>> /\ token.kind.text[1] \in Digits

\* the first cursor value from p on whose character is neither a digit nor
\* an underscore
RECURSIVE RunEnd(_)
RunEnd(p) == IF ~AtEnd(p) /\ is_integral(CharAt(p)) THEN RunEnd(p + 1) ELSE p

Dots(text) == Len(SelectSeq(text, LAMBDA ch : ch = "."))

\* C27: read_number takes the first dot that directly follows the run of
\* digits and underscores, whatever comes after it: the token is Float
\* exactly when there was such a dot, a Float's raw text has exactly one dot
\* and an Integer's none, and a second dot ends the token; 1..5 yields
\* Float("1."), Dot, Integer("5") and no range token.
C27_FirstDotAbsorbed ==
    /\ Returned /\ IsNumber =>
           /\ token.kind.variant = "Float"
                  <=> (~AtEnd(RunEnd(token_start)) /\ CharAt(RunEnd(token_start)) = ".")
           /\ Dots(token.kind.text) = IF token.kind.variant = "Float" THEN 1 ELSE 0
           /\ token.kind.variant = "Float" =>
                  scanner.read = RunEnd(RunEnd(token_start) + 1)
    /\ Returned /\ StartsWith(token_start, Chars("1..5")) =>
           token.kind = Kind("Float", "", Chars("1.")) /\ scanner.read = token_start + 2
    /\ Returned /\ token_start >= 2 /\ StartsWith(token_start - 2, Chars("1..5")) =>
           Yields("Dot", 1)
    /\ Returned /\ token_start >= 3 /\ StartsWith(token_start - 3, Chars("1..5"))
               /\ ~is_numeric(CharAt(token_start + 1)) =>
           token.kind = Kind("Integer", "", Chars("5")) /\ scanner.read = token_start + 1

\* what try_compound_operator gave when the last call tried the candidates
\* of the lead character at token_start
Tried == try_compound_operator(AtSnapshot, compound_matches(CharAt(token_start)))

\* the last call met a lead character and try_compound_operator found no
\* candidate equal to the text it compared
NoCandidate ==
    /\ Returned /\ CharAt(token_start) \in OperatorLeads
    /\ Tried.s.status = "ok" /\ Tried.kind = NoneKind

\* the single-character kinds C28 gives
C28_Single ==
    { <<"=", "Assign">>, <<":", "Colon">>, <<">", "Greater">>, <<"<", "Lesser">>,
      <<"-", "Minus">>, <<"+", "Plus">>, <<"*", "Asterisk">>, <<".", "Dot">>,
      <<"!", "Bang">>, <<"|", "Pipe">> }

\* C28: a try_compound_operator that finds no candidate equal to the source
\* text at the cursor returns None and leaves the cursor, the current
\* position and the diagnostics as they were, also when fewer characters
\* than a candidate's length remain; the caller then consumes exactly one
\* character and returns the single-character kind of the lead character.
C28_NoMatchFallsBack ==
    NoCandidate =>
        /\ Tried.s = AtSnapshot
        /\ \E e \in C28_Single :
               e[1] = CharAt(token_start) /\ token.kind = Plain(e[2])
        /\ scanner.read = token_start + 1
        /\ scanner.current_pos =
               [line |-> token.pos.line, column |-> token.pos.column + 1]
        /\ errors = before.errors

\* a lone = as the last character of the source, where fewer characters
\* remain than the candidates == and => have, came back as Assign
C28_Witness ==
    /\ NoCandidate /\ CharAt(token_start) = "="
    /\ AtEnd(token_start + 1)
    /\ token.kind = Plain("Assign")
    /\ scanner.read = Len(contents)

\* the call before the last one returned Eof
AfterEof == Returned /\ IsEof(before.token)

\* C29: once next_token has returned Eof, every further call consumes
\* nothing: it leaves the read cursor, the current position and the
\* diagnostics as they were and returns an Eof token equal to the one before
\* (same file, same pos).
C29_EofConsumesNothing ==
    AfterEof =>
        /\ token = before.token
        /\ scanner.read = before.scanner.read
        /\ scanner.current_pos = before.scanner.current_pos
        /\ errors = before.errors

\* a second Eof after a source that had tokens and diagnostics in it
C29_Witness ==
    /\ AfterEof /\ IsEof(token)
    /\ scanner.read > 0 /\ errors # <<>>
    /\ token.pos = scanner.current_pos

\* C30: after any sequence of next_token calls the read cursor is at most
\* the length of the source, so the Eof token's pos is the position right
\* after the last character of the source, also when the source ends inside
\* an unterminated string literal or block comment.
C30_CursorWithinBuffer ==
    /\ scanner.read <= Len(contents)
    /\ Returned /\ IsEof(token) => token.pos = PositionOf(Len(contents))

\* C31: handle_escape_characters terminates for every accumulated literal
\* text, its index growing by one or two in every iteration, also when the
\* text holds characters encoded in more than one byte: no call that read a
\* string literal stays in the loop with an index that no longer moves.
C31_EscapeLoopTerminates ==
    ReadLiteral => status # "hang"

\* a diagnostic of the literal itself: an escape diagnostic or the
\* unterminated-literal one
OfLiteral(e) == IsEscapeError(e) \/ IsUnterminatedLiteral(e)

\* C32: every diagnostic records the scanner's current position at the
\* moment it is pushed, never the token-start position: the escape
\* diagnostics and the unterminated-string diagnostic of a literal carry the
\* position reached after the whole literal was consumed, the
\* unterminated-string diagnostic comes before the literal's escape
\* diagnostics, and the positions in the diagnostics list never decrease in
\* insertion order.
C32_DiagnosticPositions ==
    /\ \A i \in 1..(Len(errors) - 1) : PosLeq(errors[i].pos, errors[i + 1].pos)
    /\ Returned =>
           \A i \in 1..Len(Appended) :
               /\ PosLeq(Appended[i].pos, scanner.current_pos)
               /\ PosLeq(before.scanner.current_pos, Appended[i].pos)
               /\ Appended[i].pos # before.scanner.current_pos
    /\ Returned /\ LiteralBegun =>
           /\ \A i \in 1..Len(Appended) :
                  /\ Appended[i].pos # token.pos
                  /\ OfLiteral(Appended[i]) => Appended[i].pos = scanner.current_pos
           /\ \A i, j \in 1..Len(Appended) :
                  IsUnterminatedLiteral(Appended[i]) /\ IsEscapeError(Appended[j])
                      => i < j

\* an unterminated literal with a wrong escape in it: the unterminated
\* diagnostic first, then the escape diagnostic, both at the position after
\* the literal, which is neither the token's nor the backslash's
C32_Witness ==
    /\ Returned /\ LiteralBegun /\ Len(Appended) = 2
    /\ IsUnterminatedLiteral(Appended[1]) /\ IsEscapeError(Appended[2])
    /\ Appended[1].pos = scanner.current_pos /\ Appended[2].pos = scanner.current_pos
    /\ CharAt(token_start + 2) = "\\"
    /\ token.pos.line = scanner.current_pos.line
    /\ scanner.current_pos.column > token.pos.column + 3

====
